---------------------------- MODULE Spec2Model ----------------------------
(***************************************************************************)
(* Model of wsk20/go-totp: the TOTP core (pkg/totp: secret decoding with   *)
(* its single-slot cache, code generation, validation, current-code        *)
(* accessor) and the account handling of the command line (cmd/run.go).    *)
(*                                                                         *)
(* Texts are sequences of one-character strings, byte sequences are        *)
(* sequences of integers 0..255, instants are Unix seconds.                *)
(***************************************************************************)
EXTENDS Integers, Sequences, FiniteSets, TLC

VARIABLES
    now,         \* the wall clock, Unix seconds (time.Now().Unix())
    cachedText,  \* var cachedText string
    cachedKey,   \* var cachedKey []byte (NilKey when nil)
    call,        \* the core operation in flight on the caller's goroutine
    result,      \* what the last core operation returned (or that it panicked)
    shown,       \* the last line the live display drew for an account
    rwReaders,   \* cacheMu: goroutines holding the read lock
    rwWriter,    \* cacheMu: goroutines holding the write lock
    dpc,         \* per goroutine: position inside decodeBase32Secret
    dsecret,     \* per goroutine: the local `secret` (normalized after line 61)
    dkey,        \* per goroutine: the local `key`
    dret,        \* per goroutine: what its last decodeBase32Secret returned
    text,        \* codec inputs: a reference secret text
    variant,     \* codec inputs: a differently written form of `text`
    padsDropped, \* how many trailing '=' of `text` are missing in `variant`
    sum,         \* truncation input: a digest
    digits,      \* truncation input: the Digits field of the account record
    rendered,    \* truncation output: the code string
    gen,         \* the last GenerateTOTPWithTime call on an explicit instant
    file,        \* ~/.totp_accounts.json: the stored account list
    accounts,    \* Run's `accounts` after loadAccounts
    saved,       \* the list the last saveAccounts wrote
    lastOp,      \* the last command-line operation and its argument
    heap,        \* the byte arrays allocated, by address (1, 2, ...)
    keyRef,      \* the array the slice cachedKey points to (0: nil)
    held,        \* the arrays of the slices returned to callers
    aret         \* what the last decodeBase32Secret of the caller returned

vars == <<now, cachedText, cachedKey, call, result, shown,
          rwReaders, rwWriter, dpc, dsecret, dkey, dret,
          text, variant, padsDropped, sum, digits, rendered, gen,
          file, accounts, saved, lastOp, heap, keyRef, held, aret>>

cacheVars == <<cachedText, cachedKey>>
clockVars == <<now, call, result, shown>>
lockVars == <<rwReaders, rwWriter, dpc, dsecret, dkey, dret>>
codecVars == <<text, variant, padsDropped>>
truncVars == <<sum, digits, rendered>>
genVars == <<gen>>
cliVars == <<file, accounts, saved, lastOp>>
aliasVars == <<heap, keyRef, held, aret>>

-----------------------------------------------------------------------------
(* Texts *)

Upper == <<"A","B","C","D","E","F","G","H","I","J","K","L","M",
           "N","O","P","Q","R","S","T","U","V","W","X","Y","Z">>
Lower == <<"a","b","c","d","e","f","g","h","i","j","k","l","m",
           "n","o","p","q","r","s","t","u","v","w","x","y","z">>

\* encoding/base32 StdEncoding alphabet (RFC 4648): value = index - 1
StdAlphabet == Upper \o <<"2","3","4","5","6","7">>

IndexIn(c, seq) ==
    IF \E i \in 1..Len(seq) : seq[i] = c
    THEN CHOOSE i \in 1..Len(seq) : seq[i] = c
    ELSE 0

\* strings.ToUpper on one character
LowerSet == {Lower[i] : i \in 1..Len(Lower)}
ToUpperChar(c) == IF c \in LowerSet THEN Upper[IndexIn(c, Lower)] ELSE c

\* strings.ToUpper
ToUpper(s) == [i \in 1..Len(s) |-> ToUpperChar(s[i])]

\* strings.ReplaceAll(s, " ", "")
RECURSIVE RemoveSpaces(_)
RemoveSpaces(s) ==
    IF s = <<>> THEN <<>>
    ELSE IF Head(s) = " " THEN RemoveSpaces(Tail(s))
         ELSE <<Head(s)>> \o RemoveSpaces(Tail(s))

\* strings.Repeat(c, n)
Repeat(c, n) == [i \in 1..n |-> c]

-----------------------------------------------------------------------------
(* decodeBase32Secret: normalization (part_002 lines 56-61) *)

BlockLen == 8

PadText(s) ==
    IF Len(s) % BlockLen # 0
    THEN s \o Repeat("=", BlockLen - (Len(s) % BlockLen))
    ELSE s

\* Normalize without line 57: the case of the letters is kept
NormalizeKeepCase(s) == PadText(RemoveSpaces(s))

\* lines 56-61
Normalize(s) == PadText(ToUpper(RemoveSpaces(s)))

-----------------------------------------------------------------------------
(* encoding/base32, as decodeBase32Secret calls it (part_002 lines 74, 77). *)
(* A decode yields [ok |-> BOOLEAN, key |-> bytes].                         *)

B32Val(c) == IndexIn(c, StdAlphabet) - 1      \* -1: not in the alphabet

DecodeFail == [ok |-> FALSE, key |-> <<>>]

\* the bytes of one quantum holding dlen data characters with values v
Quantum(v, dlen) ==
    LET b0 == (v[1] * 8 + v[2] \div 4) % 256
        b1 == ((v[2] % 4) * 64 + v[3] * 2 + v[4] \div 16) % 256
        b2 == ((v[4] % 16) * 16 + v[5] \div 2) % 256
        b3 == ((v[5] % 2) * 128 + v[6] * 4 + v[7] \div 8) % 256
        b4 == ((v[7] % 8) * 32 + v[8]) % 256
    IN  CASE dlen = 8 -> <<b0, b1, b2, b3, b4>>
          [] dlen = 7 -> <<b0, b1, b2, b3>>
          [] dlen = 5 -> <<b0, b1, b2>>
          [] dlen = 4 -> <<b0, b1>>
          [] OTHER    -> <<b0>>

\* values of the first n characters of a block, 0 for the rest of the 8
BlockVals(blk, n) == [j \in 1..8 |-> IF j <= n THEN B32Val(blk[j]) ELSE 0]

\* number of leading characters of blk before the first '='
DataLen(blk) ==
    IF \E j \in 1..Len(blk) : blk[j] = "="
    THEN (CHOOSE j \in 1..Len(blk) :
             blk[j] = "=" /\ \A k \in 1..(j-1) : blk[k] # "=") - 1
    ELSE Len(blk)

\* Encoding.decode, quantum by quantum; padded says whether '=' is the
\* padding character (StdEncoding) or no character is (NoPadding).
RECURSIVE B32Decode(_, _)
B32Decode(s, padded) ==
    IF s = <<>> THEN [ok |-> TRUE, key |-> <<>>]
    ELSE IF Len(s) < 8 THEN
        \* a short last quantum
        IF padded THEN DecodeFail        \* missing padding
        ELSE IF (\E j \in 1..Len(s) : B32Val(s[j]) < 0)
                \/ Len(s) \in {1, 3, 6}
             THEN DecodeFail
             ELSE [ok |-> TRUE, key |-> Quantum(BlockVals(s, Len(s)), Len(s))]
    ELSE
        LET blk  == SubSeq(s, 1, 8)
            rest == SubSeq(s, 9, Len(s))
            n    == DataLen(blk)
            last == rest = <<>>
        IN  IF n = 8 THEN
                IF \E j \in 1..8 : B32Val(blk[j]) < 0 THEN DecodeFail
                ELSE LET r == B32Decode(rest, padded)
                     IN  IF r.ok
                         THEN [ok |-> TRUE,
                               key |-> Quantum(BlockVals(blk, 8), 8) \o r.key]
                         ELSE DecodeFail
            ELSE
                \* a '=' inside the quantum: padding only for StdEncoding, in
                \* the last quantum, after at least two data characters, and
                \* followed by '=' only; 1, 3 and 6 data characters are invalid
                IF padded /\ last /\ n >= 2
                   /\ (\A j \in 1..n : B32Val(blk[j]) >= 0)
                   /\ (\A j \in (n+1)..8 : blk[j] = "=")
                   /\ n \notin {3, 6}
                THEN [ok |-> TRUE, key |-> Quantum(BlockVals(blk, n), n)]
                ELSE DecodeFail

\* base32.StdEncoding.DecodeString
DecodeStd(s) == B32Decode(s, TRUE)

\* base32.StdEncoding.WithPadding(base32.NoPadding).DecodeString
DecodeNoPad(s) == B32Decode(s, FALSE)

\* lines 74-81: the padded attempt, then the unpadded one if that failed
FirstOk(first, second) == IF first.ok THEN first ELSE second
DecodeRaw(norm) == FirstOk(DecodeStd(norm), DecodeNoPad(norm))

-----------------------------------------------------------------------------
(* GenerateTOTPWithTime (part_002 lines 116-143) *)

NilKey == <<-1>>                 \* a nil []byte

DefaultStep == 30

\* Go's integer division: the quotient truncated toward zero (b # 0)
Abs(a) == IF a < 0 THEN -a ELSE a
TruncDiv(a, b) ==
    IF (a < 0) = (b < 0) THEN Abs(a) \div Abs(b) ELSE -(Abs(a) \div Abs(b))

\* the quotient rounded up instead
CounterRoundedUp(t, timestep) == TruncDiv(t + timestep - 1, timestep)

\* line 124: counter := t.Unix() / timestep
Counter(t, timestep) == TruncDiv(t, timestep)

\* line 126: binary.BigEndian.PutUint64(buf[:], uint64(counter)); a negative
\* counter converts to its two's complement
Uint32BE(n) ==
    <<(n \div 16777216) % 256, (n \div 65536) % 256, (n \div 256) % 256, n % 256>>
CounterBytes(c) ==
    IF c >= 0 THEN <<0, 0, 0, 0>> \o Uint32BE(c)
    ELSE [j \in 1..8 |-> 255 - (<<0, 0, 0, 0>> \o Uint32BE(-c - 1))[j]]

\* getHMACFunc (lines 93-102): the digest length of the selected hash,
\* SHA1 for every value that is neither SHA256 nor SHA512
HashLen(algo) ==
    CASE algo = "SHA256" -> 32
      [] algo = "SHA512" -> 64
      [] OTHER           -> 20
HashName(algo) == IF algo \in {"SHA256", "SHA512"} THEN algo ELSE "SHA1"

\* lines 129-131: hmac.New(...).Write(buf).Sum(nil). The keyed hash itself is
\* library code; it is modelled by a fixed mixing function of (hash, key,
\* message) that gives digests of the hash's length and is injective on the
\* counters, keys and hashes of the model.
RECURSIVE WeightedSum(_, _)
WeightedSum(bytes, k) ==
    IF bytes = <<>> THEN 0
    ELSE (k * Head(bytes) + WeightedSum(Tail(bytes), k + 2)) % 65536
Mix(n, m, k) ==
    [i \in 1..n |-> (i * (m + 3) * 37 + (k + 1) * (i + 5) * 11 + m * 13 + n) % 256]
HMACSum(algo, key, msg) ==
    Mix(HashLen(algo), WeightedSum(msg, 1), WeightedSum(key, 3) + Len(key))

\* lines 134-138: dynamic truncation. Indexes are Go's (from 0); "panic" when
\* one falls outside the digest.
At0(s, i) == s[i + 1]
BinCode(digest) ==
    LET offset == At0(digest, Len(digest) - 1) % 16
    IN  IF offset + 3 > Len(digest) - 1 THEN -1
        ELSE (At0(digest, offset) % 128) * 16777216
             + At0(digest, offset + 1) * 65536
             + At0(digest, offset + 2) * 256
             + At0(digest, offset + 3)

\* fmt.Sprintf("%06d", n) for n >= 0
DigitChars == <<"0","1","2","3","4","5","6","7","8","9">>
RECURSIVE Decimal(_)
Decimal(n) ==
    IF n < 10 THEN <<DigitChars[n + 1]>>
    ELSE Decimal(n \div 10) \o <<DigitChars[(n % 10) + 1]>>
\* fmt.Sprintf("%d", n): no zero padding
SprintfD(n) == Decimal(n)

\* line 142: fmt.Sprintf("%06d", n)
Sprintf06d(n) ==
    IF Len(Decimal(n)) < 6
    THEN Repeat("0", 6 - Len(Decimal(n))) \o Decimal(n)
    ELSE Decimal(n)

\* lines 140-142
CodeOf(digest) == Sprintf06d(BinCode(digest) % 1000000)

\* The code of (key, counter, hash): lines 125-142; Panicked when an index
\* of the truncation is outside the digest
Panicked == <<"panic">>
HOTP(key, c, algo) ==
    LET digest == HMACSum(algo, key, CounterBytes(c))
    IN  IF BinCode(digest) < 0 THEN Panicked ELSE CodeOf(digest)

-----------------------------------------------------------------------------
(* The secrets of the model, and the decodes and codes of these secrets     *)
(* computed once: DecodeOf and CodeFor give what DecodeRaw and HOTP give.   *)

GoodSecret  == <<"M","F","R","G","G">>                 \* "abc"
GoodSecret2 == <<"J","B","S","W","Y","3","D","P">>     \* "Hello"
BadSecret   == <<"A","B","C","1","2","3">>             \* the README's example

\* (f @@ <<>> is f with every value computed)
KnownTexts ==
    { Normalize(GoodSecret), Normalize(GoodSecret2), Normalize(BadSecret),
      Normalize(<<"M","E">>), <<>> }
KnownCounters == -8..8
KnownAlgos == {"SHA1", "SHA256", "SHA512"}

DecodeTable == [n \in KnownTexts |-> DecodeRaw(n)] @@ <<>>
DecodeOf(norm) ==
    IF norm \in KnownTexts THEN DecodeTable[norm] ELSE DecodeRaw(norm)

CodeTable ==
    [x \in {DecodeTable[n].key : n \in KnownTexts} \X KnownCounters \X KnownAlgos
        |-> HOTP(x[1], x[2], x[3])] @@ <<>>
CodeFor(key, c, algo) ==
    IF <<key, c, HashName(algo)>> \in DOMAIN CodeTable
    THEN CodeTable[<<key, c, HashName(algo)>>]
    ELSE HOTP(key, c, algo)

-----------------------------------------------------------------------------
(* decodeBase32Secret run by one goroutine alone (part_002 lines 54-90):    *)
(* the result and the cache it leaves.                                      *)

\* StoreDecoded writing the cache before it looks at the error
StoreBeforeCheck(norm, r, cText, cKey) ==
    [ok |-> r.ok, key |-> r.key, hit |-> FALSE,
     cachedText |-> norm, cachedKey |-> r.key]

\* lines 73-90, the cache missed: r is what the two attempts gave
StoreDecoded(norm, r, cText, cKey) ==
    IF ~r.ok
    THEN [ok |-> FALSE, key |-> <<>>, hit |-> FALSE,
          cachedText |-> cText, cachedKey |-> cKey]
    ELSE [ok |-> TRUE, key |-> r.key, hit |-> FALSE,
          cachedText |-> norm, cachedKey |-> r.key]

\* lines 63-90 on the normalized text
CacheLookup(norm, cText, cKey) ==
    IF norm = cText /\ cKey # NilKey
    THEN [ok |-> TRUE, key |-> cKey, hit |-> TRUE,
          cachedText |-> cText, cachedKey |-> cKey]
    ELSE StoreDecoded(norm, DecodeOf(norm), cText, cKey)

DecodeSecret(secret, cText, cKey) == CacheLookup(Normalize(secret), cText, cKey)

\* lines 133-142: the code, or the panic of an index out of range
Truncated(base, c, code) ==
    IF code = Panicked
    THEN [base EXCEPT !.status = "panic", !.counter = c]
    ELSE [base EXCEPT !.status = "ok", !.counter = c, !.code = code]

\* lines 119-142, d being what decodeBase32Secret returned
CodeWithKey(d, timestep, t, algo) ==
    IF ~d.ok
    THEN [status |-> "err", code |-> <<>>, counter |-> 0,
          cachedText |-> d.cachedText, cachedKey |-> d.cachedKey]
    ELSE IF timestep = 0
    THEN [status |-> "panic", code |-> <<>>, counter |-> 0,
          cachedText |-> d.cachedText, cachedKey |-> d.cachedKey]
    ELSE Truncated([status |-> "ok", code |-> <<>>, counter |-> 0,
                    cachedText |-> d.cachedText, cachedKey |-> d.cachedKey],
                   Counter(t, timestep),
                   CodeFor(d.key, Counter(t, timestep), algo))

\* GenerateTOTPWithTime, lines 116-143. status is "ok" (a code is returned),
\* "err" (the decode error is returned) or "panic" (the goroutine panics:
\* integer division by zero at line 124, index out of range at 135-138).
GenerateTOTPWithTime(secret, timestep, t, algo, cText, cKey) ==
    CodeWithKey(DecodeSecret(secret, cText, cKey), timestep, t, algo)

-----------------------------------------------------------------------------
(* The core as one process calls it: ValidateTOTP (lines 152-160),          *)
(* GenerateCurrentTOTP (lines 167-176) and the clock they read. Each        *)
(* time.Now() is one step, so the clock may advance between two readings.   *)

\* OTPConfig records as stored by the command line (run.go lines 34-41)
OTPConfig(label, secret, algo, period, digs) ==
    [Label |-> label, Secret |-> secret, Algorithm |-> algo,
     Period |-> period, Digits |-> digs]

StoredAccounts ==
    { OTPConfig("alice", GoodSecret,  "SHA1",   30, 6),
      OTPConfig("bob",   GoodSecret2, "SHA256", 60, 8),
      OTPConfig("carol", GoodSecret,  "SHA512", 0,  6),
      OTPConfig("dave",  BadSecret,   "SHA1",   30, 6) }

Windows == {-1, 0, 1}
CandidateOffsets == -2..2

StartTimes == {89, 100, 119}
MaxTicks == 3

NoAccount == OTPConfig("", <<>>, "", 0, 0)

Idle ==
    [op |-> "idle", acct |-> NoAccount, window |-> 0, cand |-> <<>>,
     candCounter |-> 0, i |-> 0, t0 |-> 0, code |-> <<>>,
     cache0Text |-> <<>>, cache0Key |-> NilKey]

NoResult ==
    [op |-> "none", status |-> "none", acct |-> NoAccount, window |-> 0,
     cand |-> <<>>, candCounter |-> 0, t0 |-> 0, tEnd |-> 0, code |-> <<>>,
     start |-> 0, end |-> 0, cache0Text |-> <<>>, cache0Key |-> NilKey,
     cache1Text |-> <<>>, cache1Key |-> NilKey]

NoShown ==
    [valid |-> FALSE, acct |-> NoAccount, code |-> <<>>, counter |-> 0, t |-> 0]

\* the key a secret decodes to, <<>> when it does not decode
KeyOf(secret) == DecodeOf(Normalize(secret)).key

\* what a finished call reports, with the cache as it found and left it
Finished(c, status) ==
    [op |-> c.op, status |-> status, acct |-> c.acct, window |-> c.window,
     cand |-> c.cand, candCounter |-> c.candCounter, t0 |-> c.t0,
     tEnd |-> now, code |-> c.code, start |-> 0, end |-> 0,
     cache0Text |-> c.cache0Text, cache0Key |-> c.cache0Key,
     cache1Text |-> cachedText', cache1Key |-> cachedKey']

\* the wall clock advances by one second
Tick ==
    /\ \E s \in StartTimes : s <= now /\ now + 1 <= s + MaxTicks
    /\ now' = now + 1
    /\ UNCHANGED <<cachedText, cachedKey, call, result, shown>>

\* a process exits and a new one starts: the cache is process memory
Restart ==
    /\ call.op \in {"idle", "aborted"}
    /\ (call.op = "aborted" \/ cachedKey # NilKey)
    /\ cachedText' = <<>>
    /\ cachedKey' = NilKey
    /\ call' = Idle
    /\ UNCHANGED <<now, result, shown>>

\* the caller is done with what the last call returned
Forget ==
    /\ call.op = "idle"
    /\ result # NoResult
    /\ result' = NoResult
    /\ shown' = NoShown
    /\ UNCHANGED <<now, cachedText, cachedKey, call>>

\* ValidateTOTP is entered (line 152); i := -window (line 153). The
\* candidate is the code of one counter near the present one.
Entered(c) ==
    /\ UNCHANGED <<now, cachedText, cachedKey>>
    /\ result' = IF c.i <= c.window THEN NoResult ELSE Finished(c, "false")
    /\ call' = IF c.i <= c.window THEN c ELSE Idle

EnterValidate(acct, w, cand, candCounter) ==
    Entered([Idle EXCEPT !.op = "validate", !.acct = acct, !.window = w,
                         !.cand = cand, !.candCounter = candCounter,
                         !.i = -w, !.cache0Text = cachedText,
                         !.cache0Key = cachedKey])

\* the counter d steps from the present one of the account
NearCounter(acct, d) ==
    Counter(now, IF acct.Period = 0 THEN DefaultStep ELSE acct.Period) + d

ValidateStart ==
    /\ call.op = "idle"
    /\ result = NoResult
    /\ \E acct \in StoredAccounts, w \in Windows, d \in CandidateOffsets :
          EnterValidate(acct, w,
              CodeFor(KeyOf(acct.Secret), NearCounter(acct, d), acct.Algorithm),
              NearCounter(acct, d))
    /\ shown' = NoShown

\* run.go lines 342-353: --verify with the code the display last showed for
\* the account, window 1
VerifyShown ==
    /\ call.op = "idle"
    /\ shown.valid
    /\ EnterValidate(shown.acct, 1, shown.code, shown.counter)
    /\ UNCHANGED shown

\* one iteration of the loop at lines 153-158, and line 159 after the last
ValidateOutcome(c, g) ==
    /\ cachedText' = g.cachedText
    /\ cachedKey' = g.cachedKey
    /\ IF g.status = "panic"
       THEN /\ result' = Finished(c, "panic")
            /\ call' = [Idle EXCEPT !.op = "aborted"]
       ELSE IF g.status = "ok" /\ g.code = c.cand
       THEN /\ result' = Finished(c, "true")
            /\ call' = Idle
       ELSE IF c.i + 1 <= c.window
       THEN /\ result' = result
            /\ call' = [c EXCEPT !.i = c.i + 1]
       ELSE /\ result' = Finished(c, "false")
            /\ call' = Idle

\* t0 is the instant the call first reads the clock
ValidateStep ==
    /\ call.op = "validate"
    /\ ValidateOutcome(
          [call EXCEPT !.t0 = IF call.i = -call.window THEN now ELSE call.t0],
          GenerateTOTPWithTime(call.acct.Secret, call.acct.Period,
              now + call.i * call.acct.Period, call.acct.Algorithm,
              cachedText, cachedKey))
    /\ UNCHANGED <<now, shown>>

\* displayAccounts (run.go line 183) calls GenerateCurrentTOTP for an account
CurrentStart ==
    /\ call.op = "idle"
    /\ result = NoResult
    /\ \E acct \in StoredAccounts :
          call' = [Idle EXCEPT !.op = "current", !.acct = acct,
                               !.cache0Text = cachedText,
                               !.cache0Key = cachedKey]
    /\ result' = NoResult
    /\ shown' = NoShown
    /\ UNCHANGED <<now, cachedText, cachedKey>>

\* lines 168-171: GenerateTOTP(secret, DefaultStep, algo) reads the clock
CurrentOutcome(g) ==
    /\ cachedText' = g.cachedText
    /\ cachedKey' = g.cachedKey
    /\ IF g.status = "ok"
       THEN /\ call' = [call EXCEPT !.op = "currentWindow", !.code = g.code,
                                    !.candCounter = g.counter, !.t0 = now]
            /\ result' = result
       ELSE /\ call' = IF g.status = "panic"
                       THEN [Idle EXCEPT !.op = "aborted"] ELSE Idle
            /\ result' = Finished([call EXCEPT !.t0 = now], g.status)

CurrentGenerate ==
    /\ call.op = "current"
    /\ CurrentOutcome(
          GenerateTOTPWithTime(call.acct.Secret, DefaultStep, now,
                               call.acct.Algorithm, cachedText, cachedKey))
    /\ UNCHANGED <<now, shown>>

\* lines 172-175: now := time.Now() and the window; the display draws the
\* code, which is the code of the instant t0 it was generated at
CurrentWindow ==
    /\ call.op = "currentWindow"
    /\ UNCHANGED <<now, cachedText, cachedKey>>
    /\ LET start == TruncDiv(now, DefaultStep) * DefaultStep
       IN  /\ result' = [Finished(call, "ok") EXCEPT
                            !.op = "current", !.start = start,
                            !.end = start + DefaultStep]
           /\ shown' = [valid |-> TRUE, acct |-> call.acct,
                        code |-> call.code,
                        counter |-> call.candCounter, t |-> call.t0]
    /\ call' = Idle

\* GenerateTOTPWithTime called on an instant one period before, at, or one
\* period after the present one
AtOutcome(c, g) ==
    /\ cachedText' = g.cachedText
    /\ cachedKey' = g.cachedKey
    /\ result' = Finished([c EXCEPT !.code = g.code, !.candCounter = g.counter],
                          g.status)
    /\ call' = IF g.status = "panic" THEN [Idle EXCEPT !.op = "aborted"] ELSE Idle

GenerateAtCall ==
    /\ call.op = "idle"
    /\ result = NoResult
    /\ \E acct \in StoredAccounts, d \in {-1, 0, 1} :
          AtOutcome([Idle EXCEPT !.op = "at", !.acct = acct,
                                 !.t0 = now + d * DefaultStep,
                                 !.cache0Text = cachedText,
                                 !.cache0Key = cachedKey],
                    GenerateTOTPWithTime(acct.Secret, acct.Period,
                        now + d * DefaultStep, acct.Algorithm,
                        cachedText, cachedKey))
    /\ UNCHANGED <<now, shown>>

EngineInit ==
    /\ now \in StartTimes
    /\ cachedText = <<>>
    /\ cachedKey = NilKey
    /\ call = Idle
    /\ result = NoResult
    /\ shown = NoShown

-----------------------------------------------------------------------------
(* decodeBase32Secret called by several goroutines (part_002 lines 54-90):  *)
(* every acquisition and release of cacheMu and every access to cachedText  *)
(* and cachedKey is one step.                                               *)

NumProcs == 2
Procs == 1..NumProcs

CacheSecrets ==
    { GoodSecret, <<"m","f"," ","r","g","g">>, GoodSecret2, <<"M","E">>,
      BadSecret }

NoReturn == [done |-> FALSE, ok |-> FALSE, hit |-> FALSE, norm |-> <<>>,
             key |-> <<>>]

\* sync.RWMutex: RLock waits while a writer holds the lock, Lock waits while
\* anyone holds it
CanRLock(p) == rwWriter = {}
\* a Lock that does not wait for the readers
LockDespiteReaders(p) == rwWriter = {}

CanLock(p) == rwWriter = {} /\ rwReaders = {}

\* lines 54-61: the call is made and the local secret normalized
DecodeCall(p) ==
    /\ dpc[p] = "idle"
    /\ \E s \in CacheSecrets : dsecret' = [dsecret EXCEPT ![p] = Normalize(s)]
    /\ dpc' = [dpc EXCEPT ![p] = "rlock"]
    /\ dret' = [dret EXCEPT ![p] = NoReturn]
    /\ UNCHANGED <<cachedText, cachedKey, rwReaders, rwWriter, dkey>>

\* line 64
DecodeRLock(p) ==
    /\ dpc[p] = "rlock"
    /\ CanRLock(p)
    /\ rwReaders' = rwReaders \cup {p}
    /\ dpc' = [dpc EXCEPT ![p] = "compare"]
    /\ UNCHANGED <<cachedText, cachedKey, rwWriter, dsecret, dkey, dret>>

\* line 65: secret == cachedText && cachedKey != nil
DecodeCompare(p) ==
    /\ dpc[p] = "compare"
    /\ dpc' = [dpc EXCEPT ![p] =
                  IF dsecret[p] = cachedText /\ cachedKey # NilKey
                  THEN "copy" ELSE "runlock"]
    /\ UNCHANGED <<cachedText, cachedKey, rwReaders, rwWriter, dsecret, dkey,
                   dret>>

\* lines 66-67: key := make(...); copy(key, cachedKey)
DecodeCopy(p) ==
    /\ dpc[p] = "copy"
    /\ dkey' = [dkey EXCEPT ![p] = cachedKey]
    /\ dpc' = [dpc EXCEPT ![p] = "hitunlock"]
    /\ UNCHANGED <<cachedText, cachedKey, rwReaders, rwWriter, dsecret, dret>>

\* lines 68-69: RUnlock and return the copy
DecodeHitReturn(p) ==
    /\ dpc[p] = "hitunlock"
    /\ rwReaders' = rwReaders \ {p}
    /\ dret' = [dret EXCEPT ![p] =
                  [done |-> TRUE, ok |-> TRUE, hit |-> TRUE,
                   norm |-> dsecret[p], key |-> dkey[p]]]
    /\ dpc' = [dpc EXCEPT ![p] = "idle"]
    /\ dsecret' = [dsecret EXCEPT ![p] = <<>>]
    /\ dkey' = [dkey EXCEPT ![p] = NilKey]
    /\ UNCHANGED <<cachedText, cachedKey, rwWriter>>

\* line 71
DecodeRUnlock(p) ==
    /\ dpc[p] = "runlock"
    /\ rwReaders' = rwReaders \ {p}
    /\ dpc' = [dpc EXCEPT ![p] = "decode"]
    /\ UNCHANGED <<cachedText, cachedKey, rwWriter, dsecret, dkey, dret>>

\* lines 74-81: both decode attempts; the error is returned at line 79
DecodeAttempt(p) ==
    /\ dpc[p] = "decode"
    /\ LET r == DecodeOf(dsecret[p])
       IN  IF r.ok
           THEN /\ dkey' = [dkey EXCEPT ![p] = r.key]
                /\ dpc' = [dpc EXCEPT ![p] = "lock"]
                /\ UNCHANGED <<dret, dsecret>>
           ELSE /\ dkey' = dkey
                /\ dpc' = [dpc EXCEPT ![p] = "idle"]
                /\ dret' = [dret EXCEPT ![p] =
                              [done |-> TRUE, ok |-> FALSE, hit |-> FALSE,
                               norm |-> dsecret[p], key |-> <<>>]]
                /\ dsecret' = [dsecret EXCEPT ![p] = <<>>]
    /\ UNCHANGED <<cachedText, cachedKey, rwReaders, rwWriter>>

\* line 84
DecodeLock(p) ==
    /\ dpc[p] = "lock"
    /\ CanLock(p)
    /\ rwWriter' = rwWriter \cup {p}
    /\ dpc' = [dpc EXCEPT ![p] = "storetext"]
    /\ UNCHANGED <<cachedText, cachedKey, rwReaders, dsecret, dkey, dret>>

\* line 85: cachedText = secret
DecodeStoreText(p) ==
    /\ dpc[p] = "storetext"
    /\ cachedText' = dsecret[p]
    /\ dpc' = [dpc EXCEPT ![p] = "storekey"]
    /\ UNCHANGED <<cachedKey, rwReaders, rwWriter, dsecret, dkey, dret>>

\* line 86: cachedKey = key
DecodeStoreKey(p) ==
    /\ dpc[p] = "storekey"
    /\ cachedKey' = dkey[p]
    /\ dpc' = [dpc EXCEPT ![p] = "unlock"]
    /\ UNCHANGED <<cachedText, rwReaders, rwWriter, dsecret, dkey, dret>>

\* lines 87-89: Unlock and return key
DecodeMissReturn(p) ==
    /\ dpc[p] = "unlock"
    /\ rwWriter' = rwWriter \ {p}
    /\ dret' = [dret EXCEPT ![p] =
                  [done |-> TRUE, ok |-> TRUE, hit |-> FALSE,
                   norm |-> dsecret[p], key |-> dkey[p]]]
    /\ dpc' = [dpc EXCEPT ![p] = "idle"]
    /\ dsecret' = [dsecret EXCEPT ![p] = <<>>]
    /\ dkey' = [dkey EXCEPT ![p] = NilKey]
    /\ UNCHANGED <<cachedText, cachedKey, rwReaders>>

CacheInit ==
    /\ cachedText = <<>>
    /\ cachedKey = NilKey
    /\ rwReaders = {}
    /\ rwWriter = {}
    /\ dpc = [p \in Procs |-> "idle"]
    /\ dsecret = [p \in Procs |-> <<>>]
    /\ dkey = [p \in Procs |-> NilKey]
    /\ dret = [p \in Procs |-> NoReturn]

-----------------------------------------------------------------------------
(* Secret texts written in different ways (part_002 lines 54-61): a         *)
(* reference text and a variant of it that differs by letter case, by       *)
(* spaces and by missing trailing '=' padding.                              *)

MaxTextLen == 2
MaxSpaces == 1

TextChars == {"M", "f", "=", "1"}

RECURSIVE TextsOfLen(_)
TextsOfLen(n) ==
    IF n = 0 THEN {<<>>}
    ELSE {<<c>> \o t : c \in TextChars, t \in TextsOfLen(n - 1)}

ShortTexts == UNION {TextsOfLen(n) : n \in 0..MaxTextLen}

\* the texts of the model: short ones as typed, the same padded to a whole
\* block, and two eight-character ones
CodecTexts ==
    ShortTexts \cup {PadText(t) : t \in ShortTexts} \cup {GoodSecret2, GoodSecret}

IsLetter(c) == IndexIn(c, Lower) > 0 \/ IndexIn(c, Upper) > 0
SwapCase(c) ==
    IF IndexIn(c, Lower) > 0 THEN Upper[IndexIn(c, Lower)]
    ELSE IF IndexIn(c, Upper) > 0 THEN Lower[IndexIn(c, Upper)]
    ELSE c

CountSpaces(s) == Cardinality({i \in 1..Len(s) : s[i] = " "})

\* the variant gets one letter in the other case
ChangeCase ==
    /\ \E i \in 1..Len(variant) :
          /\ IsLetter(variant[i])
          /\ variant' = [variant EXCEPT ![i] = SwapCase(variant[i])]
    /\ UNCHANGED <<text, padsDropped>>

\* the variant gets a space character somewhere
InsertSpace ==
    /\ CountSpaces(variant) < MaxSpaces
    /\ \E i \in 0..Len(variant) :
          variant' = SubSeq(variant, 1, i) \o <<" ">>
                     \o SubSeq(variant, i + 1, Len(variant))
    /\ UNCHANGED <<text, padsDropped>>

\* the variant loses one trailing '=' of a text that fills whole blocks
DropPad ==
    /\ Len(RemoveSpaces(text)) % BlockLen = 0
    /\ padsDropped + 1 < BlockLen
    /\ variant # <<>>
    /\ variant[Len(variant)] = "="
    /\ variant' = SubSeq(variant, 1, Len(variant) - 1)
    /\ padsDropped' = padsDropped + 1
    /\ UNCHANGED text

CodecInit ==
    /\ text \in CodecTexts
    /\ variant = text
    /\ padsDropped = 0

-----------------------------------------------------------------------------
(* Dynamic truncation and formatting (part_002 lines 133-142) on digests    *)
(* of the three hash lengths.                                               *)

DigestLens == {20, 32, 64}
LastBytes == {0, 15, 127, 250}
TopBytes == {0, 127, 128, 255}
MidBytes == {0, 255}
LowBytes == {0, 42, 255}
DigitsConfigured == {6, 8}

\* a digest of length n ending in byte last, with b at Go indexes
\* offset..offset+3 and zero elsewhere
DigestWith(n, last, b) ==
    [i \in 1..n |->
        IF i = n THEN last
        ELSE IF i - 1 \in (last % 16)..((last % 16) + 3)
        THEN b[i - (last % 16)]
        ELSE 0]

Digests ==
    { DigestWith(n, last, <<b0, b1, b2, b3>>) :
        n \in DigestLens, last \in LastBytes, b0 \in TopBytes,
        b1 \in MidBytes, b2 \in MidBytes, b3 \in LowBytes }

NotRendered == <<"-">>

\* lines 133-142 on the digest at hand
Truncate ==
    /\ rendered = NotRendered
    /\ rendered' = IF BinCode(sum) < 0 THEN Panicked ELSE CodeOf(sum)
    /\ UNCHANGED <<sum, digits>>

TruncInit ==
    /\ sum \in Digests
    /\ digits \in DigitsConfigured
    /\ rendered = NotRendered

-----------------------------------------------------------------------------
(* GenerateTOTPWithTime called on explicit instants (part_002 lines         *)
(* 116-143): `gen` holds the last two calls, the latest first.              *)

MaxInstant == 6
MaxPeriod == 3

GenSecrets == {GoodSecret, BadSecret}
GenAlgos == {"SHA1", "SHA256"}

NoGen == [secret |-> <<>>, period |-> 0, t |-> 0, algo |-> "",
          status |-> "none", counter |-> 0, code |-> <<>>]

Generated(secret, p, t, algo, g) ==
    /\ gen' = << [secret |-> secret, period |-> p, t |-> t, algo |-> algo,
                  status |-> g.status, counter |-> g.counter, code |-> g.code],
                 gen[1] >>
    /\ cachedText' = g.cachedText
    /\ cachedKey' = g.cachedKey

GenerateAt ==
    /\ gen[2] = NoGen
    /\ \E secret \in GenSecrets, p \in 0..MaxPeriod,
          t \in (-MaxInstant)..MaxInstant, algo \in GenAlgos :
          Generated(secret, p, t, algo,
              GenerateTOTPWithTime(secret, p, t, algo, cachedText, cachedKey))

\* the caller is done with the two results
GenForget ==
    /\ gen[2] # NoGen
    /\ gen' = <<NoGen, NoGen>>
    /\ UNCHANGED <<cachedText, cachedKey>>

GenInit ==
    /\ gen = <<NoGen, NoGen>>
    /\ cachedText = <<>>
    /\ cachedKey = NilKey

-----------------------------------------------------------------------------
(* The account list of the command line (cmd/run.go): one run of the        *)
(* program loads the file, applies one operation and saves.                 *)

MaxFileLen == 3

Labels == {"alice", "bob"}
CliPeriods == {30, 60}

\* the account records of the model differ in label and period
CliAccounts ==
    {OTPConfig(l, GoodSecret, "SHA1", p, 6) : l \in Labels, p \in CliPeriods}

RECURSIVE ListsOfLen(_)
ListsOfLen(n) ==
    IF n = 0 THEN {<<>>}
    ELSE {<<a>> \o l : a \in CliAccounts, l \in ListsOfLen(n - 1)}

\* the file does not exist
Missing == <<OTPConfig("<no file>", <<>>, "", 0, 0)>>

HasLabel(list, label) == \E i \in 1..Len(list) : list[i].Label = label
FirstIndex(list, label) ==
    CHOOSE i \in 1..Len(list) :
        list[i].Label = label /\ \A j \in 1..(i-1) : list[j].Label # label

\* uniqueAccounts, lines 105-115
RECURSIVE UniqueFrom(_, _)
UniqueFrom(list, seen) ==
    IF list = <<>> THEN <<>>
    ELSE IF Head(list).Label \in seen THEN UniqueFrom(Tail(list), seen)
         ELSE <<Head(list)>> \o UniqueFrom(Tail(list), seen \cup {Head(list).Label})
uniqueAccounts(list) == UniqueFrom(list, {})

\* loadAccounts, lines 118-138: the list returned
loadAccounts(f) == IF f = Missing THEN <<>> ELSE uniqueAccounts(f)

\* loadAccounts, lines 119-126: the file it leaves
FileAfterLoad(f) == IF f = Missing THEN <<>> ELSE f

\* removeAccount, lines 146-153: the list returned
removeAccount(list, label) ==
    IF HasLabel(list, label)
    THEN SubSeq(list, 1, FirstIndex(list, label) - 1)
         \o SubSeq(list, FirstIndex(list, label) + 1, Len(list))
    ELSE list

\* adding without the search for the label
AlwaysAppend(list, cfg) == Append(list, cfg)

\* lines 238-252 and 319-333: replace the first account of the label in
\* place, or append
addAccount(list, cfg) ==
    IF HasLabel(list, cfg.Label)
    THEN [list EXCEPT ![FirstIndex(list, cfg.Label)] = cfg]
    ELSE Append(list, cfg)

\* saveAccounts, lines 140-144: the list written
saveAccounts(list) == uniqueAccounts(list)

\* parseOtpauthURL, lines 64-102, on a URI given by its type, label, secret
\* and period parameter (0: absent); "error" when it is refused
parseOtpauthURL(uri) ==
    IF uri.host # "totp" \/ uri.secret = <<>> THEN [ok |-> FALSE, cfg |-> NoAccount]
    ELSE [ok |-> TRUE,
          cfg |-> OTPConfig(uri.label, uri.secret, "SHA1",
                            IF uri.period = 0 THEN 30 ELSE uri.period, 6)]

URIs ==
    [host : {"totp", "hotp"}, label : Labels, secret : {<<>>, GoodSecret},
     period : {0} \cup CliPeriods]

Op(kind, label, cfg, loaded, fatal) ==
    [kind |-> kind, label |-> label, cfg |-> cfg, loaded |-> loaded,
     fatal |-> fatal]

\* Run with --add <uri>, lines 226-258
RunAddURI ==
    \E uri \in URIs :
        LET loaded == loadAccounts(file)
            parsed == parseOtpauthURL(uri)
        IN  /\ accounts' = IF parsed.ok THEN addAccount(loaded, parsed.cfg)
                           ELSE loaded
            /\ saved' = IF parsed.ok
                        THEN saveAccounts(addAccount(loaded, parsed.cfg))
                        ELSE saved
            /\ file' = IF parsed.ok
                       THEN saveAccounts(addAccount(loaded, parsed.cfg))
                       ELSE FileAfterLoad(file)
            /\ lastOp' = Op("add", uri.label, parsed.cfg, loaded, ~parsed.ok)

\* Run with --remove <label>, lines 226-229 and 261-272
RunRemove ==
    \E label \in Labels :
        LET loaded == loadAccounts(file)
            found  == HasLabel(loaded, label)
        IN  /\ accounts' = removeAccount(loaded, label)
            /\ saved' = IF found THEN saveAccounts(removeAccount(loaded, label))
                        ELSE saved
            /\ file' = IF found THEN saveAccounts(removeAccount(loaded, label))
                       ELSE FileAfterLoad(file)
            /\ lastOp' = Op("remove", label, NoAccount, loaded, ~found)

\* Run with --add-user and --add-key (and perhaps --account), lines 226-229,
\* 284-339: an --account label that is not stored ends the run at line 302
RunAddUser ==
    \E cfg \in CliAccounts, sel \in Labels \cup {""} :
        LET loaded == loadAccounts(file)
            fatal  == sel # "" /\ ~HasLabel(loaded, sel)
        IN  /\ accounts' = IF fatal THEN loaded ELSE addAccount(loaded, cfg)
            /\ saved' = IF fatal THEN saved
                        ELSE saveAccounts(addAccount(loaded, cfg))
            /\ file' = IF fatal THEN FileAfterLoad(file)
                       ELSE saveAccounts(addAccount(loaded, cfg))
            /\ lastOp' = Op("add", cfg.Label, cfg, loaded, fatal)

\* Run with --list, lines 226-229 and 275-281: nothing is saved
RunList ==
    /\ accounts' = loadAccounts(file)
    /\ file' = FileAfterLoad(file)
    /\ lastOp' = Op("list", "", NoAccount, loadAccounts(file), FALSE)
    /\ UNCHANGED saved

\* saveAccounts has not run
NotSaved == <<OTPConfig("<not saved>", <<>>, "", 0, 0)>>

CliInit ==
    /\ file \in {Missing} \cup UNION {ListsOfLen(n) : n \in 0..MaxFileLen}
    /\ accounts = <<>>
    /\ saved = NotSaved
    /\ lastOp = Op("none", "", NoAccount, <<>>, FALSE)

-----------------------------------------------------------------------------
(* The storage of the key bytes (part_002 lines 63-90): a []byte is a       *)
(* reference to an array, so the model keeps the arrays by address and      *)
(* cachedKey as the address keyRef; cachedKey itself holds the bytes that   *)
(* slice reads. One caller decodes and may write into what it was given.    *)

MaxArrays == 3

AliasSecrets == {GoodSecret, GoodSecret2, BadSecret}
WrittenBytes == {0, 255}

NoRef == 0
NoAliasReturn ==
    [done |-> FALSE, ok |-> FALSE, hit |-> FALSE, norm |-> <<>>,
     key |-> <<>>, ref |-> NoRef]

\* lines 65-69: key := make([]byte, len(cachedKey)); copy(key, cachedKey);
\* return key
AliasHit(norm) ==
    /\ norm = cachedText /\ keyRef # NoRef
    /\ Len(heap) < MaxArrays
    /\ heap' = Append(heap, heap[keyRef])
    /\ held' = held \cup {Len(heap) + 1}
    /\ aret' = [done |-> TRUE, ok |-> TRUE, hit |-> TRUE, norm |-> norm,
                key |-> heap[keyRef], ref |-> Len(heap) + 1]
    /\ UNCHANGED <<cachedText, cachedKey, keyRef>>

\* lines 73-89, r being what the decode attempts gave: DecodeString
\* allocates the array of key; cachedKey = key; return key
AliasMiss(norm, r) ==
    /\ ~(norm = cachedText /\ keyRef # NoRef)
    /\ IF ~r.ok
       THEN /\ aret' = [done |-> TRUE, ok |-> FALSE, hit |-> FALSE,
                        norm |-> norm, key |-> <<>>, ref |-> NoRef]
            /\ UNCHANGED <<heap, keyRef, held, cachedText, cachedKey>>
       ELSE /\ Len(heap) < MaxArrays
            /\ heap' = Append(heap, r.key)
            /\ cachedText' = norm
            /\ keyRef' = Len(heap) + 1
            /\ cachedKey' = r.key
            /\ held' = held \cup {Len(heap) + 1}
            /\ aret' = [done |-> TRUE, ok |-> TRUE, hit |-> FALSE,
                        norm |-> norm, key |-> r.key, ref |-> Len(heap) + 1]

AliasDecodeHit == \E s \in AliasSecrets : AliasHit(Normalize(s))
AliasDecodeMiss ==
    \E s \in AliasSecrets : AliasMiss(Normalize(s), DecodeOf(Normalize(s)))

\* the caller changes the first or the last byte of a slice it was given
CallerWrites ==
    \E a \in held, b \in WrittenBytes :
        \E i \in {1, Len(heap[a])} :
            /\ heap[a][i] # b
            /\ heap' = [heap EXCEPT ![a][i] = b]
            /\ cachedKey' = IF a = keyRef THEN [heap[a] EXCEPT ![i] = b]
                            ELSE cachedKey
            /\ UNCHANGED <<cachedText, keyRef, held, aret>>

\* the process exits and a new one starts
AliasRestart ==
    /\ heap # <<>>
    /\ heap' = <<>>
    /\ keyRef' = NoRef
    /\ held' = {}
    /\ aret' = NoAliasReturn
    /\ cachedText' = <<>>
    /\ cachedKey' = NilKey

AliasInit ==
    /\ heap = <<>>
    /\ keyRef = NoRef
    /\ held = {}
    /\ aret = NoAliasReturn
    /\ cachedText = <<>>
    /\ cachedKey = NilKey

-----------------------------------------------------------------------------
(* Specifications. Each one runs one part of the program; the state of the  *)
(* other parts stays as it is at the start.                                 *)

CacheAtStart == cachedText = <<>> /\ cachedKey = NilKey
ClockAtStart ==
    now = 0 /\ call = Idle /\ result = NoResult /\ shown = NoShown
LockAtStart ==
    /\ rwReaders = {}
    /\ rwWriter = {}
    /\ dpc = [p \in Procs |-> "idle"]
    /\ dsecret = [p \in Procs |-> <<>>]
    /\ dkey = [p \in Procs |-> NilKey]
    /\ dret = [p \in Procs |-> NoReturn]
CodecAtStart == text = <<>> /\ variant = <<>> /\ padsDropped = 0
TruncAtStart == sum = <<>> /\ digits = 6 /\ rendered = NotRendered
GenAtStart == gen = <<NoGen, NoGen>>
CliAtStart ==
    /\ file = <<>>
    /\ accounts = <<>>
    /\ saved = NotSaved
    /\ lastOp = Op("none", "", NoAccount, <<>>, FALSE)
AliasAtStart ==
    heap = <<>> /\ keyRef = NoRef /\ held = {} /\ aret = NoAliasReturn

\* the core called by one process, with the clock running
Init ==
    /\ EngineInit
    /\ LockAtStart /\ CodecAtStart /\ TruncAtStart /\ GenAtStart /\ CliAtStart
    /\ AliasAtStart
Next ==
    \/ Tick /\ UNCHANGED <<lockVars, codecVars, truncVars, genVars, cliVars, aliasVars>>
    \/ Restart /\ UNCHANGED <<lockVars, codecVars, truncVars, genVars, cliVars, aliasVars>>
    \/ Forget /\ UNCHANGED <<lockVars, codecVars, truncVars, genVars, cliVars, aliasVars>>
    \/ ValidateStart /\ UNCHANGED <<lockVars, codecVars, truncVars, genVars, cliVars, aliasVars>>
    \/ VerifyShown /\ UNCHANGED <<lockVars, codecVars, truncVars, genVars, cliVars, aliasVars>>
    \/ ValidateStep /\ UNCHANGED <<lockVars, codecVars, truncVars, genVars, cliVars, aliasVars>>
    \/ CurrentStart /\ UNCHANGED <<lockVars, codecVars, truncVars, genVars, cliVars, aliasVars>>
    \/ CurrentGenerate /\ UNCHANGED <<lockVars, codecVars, truncVars, genVars, cliVars, aliasVars>>
    \/ CurrentWindow /\ UNCHANGED <<lockVars, codecVars, truncVars, genVars, cliVars, aliasVars>>
    \/ GenerateAtCall /\ UNCHANGED <<lockVars, codecVars, truncVars, genVars, cliVars, aliasVars>>
Spec == Init /\ [][Next]_vars

\* decodeBase32Secret called by several goroutines
InitCache ==
    /\ CacheInit
    /\ ClockAtStart /\ CodecAtStart /\ TruncAtStart /\ GenAtStart /\ CliAtStart
    /\ AliasAtStart
NextCache ==
    \E p \in Procs :
        \/ DecodeCall(p) /\ UNCHANGED <<clockVars, codecVars, truncVars, genVars, cliVars, aliasVars>>
        \/ DecodeRLock(p) /\ UNCHANGED <<clockVars, codecVars, truncVars, genVars, cliVars, aliasVars>>
        \/ DecodeCompare(p) /\ UNCHANGED <<clockVars, codecVars, truncVars, genVars, cliVars, aliasVars>>
        \/ DecodeCopy(p) /\ UNCHANGED <<clockVars, codecVars, truncVars, genVars, cliVars, aliasVars>>
        \/ DecodeHitReturn(p) /\ UNCHANGED <<clockVars, codecVars, truncVars, genVars, cliVars, aliasVars>>
        \/ DecodeRUnlock(p) /\ UNCHANGED <<clockVars, codecVars, truncVars, genVars, cliVars, aliasVars>>
        \/ DecodeAttempt(p) /\ UNCHANGED <<clockVars, codecVars, truncVars, genVars, cliVars, aliasVars>>
        \/ DecodeLock(p) /\ UNCHANGED <<clockVars, codecVars, truncVars, genVars, cliVars, aliasVars>>
        \/ DecodeStoreText(p) /\ UNCHANGED <<clockVars, codecVars, truncVars, genVars, cliVars, aliasVars>>
        \/ DecodeStoreKey(p) /\ UNCHANGED <<clockVars, codecVars, truncVars, genVars, cliVars, aliasVars>>
        \/ DecodeMissReturn(p) /\ UNCHANGED <<clockVars, codecVars, truncVars, genVars, cliVars, aliasVars>>
SpecCache == InitCache /\ [][NextCache]_vars

\* secret texts and their variants
InitCodec ==
    /\ CodecInit
    /\ CacheAtStart /\ ClockAtStart /\ LockAtStart /\ TruncAtStart
    /\ GenAtStart /\ CliAtStart
    /\ AliasAtStart
NextCodec ==
    \/ ChangeCase /\ UNCHANGED <<cacheVars, clockVars, lockVars, truncVars, genVars, cliVars, aliasVars>>
    \/ InsertSpace /\ UNCHANGED <<cacheVars, clockVars, lockVars, truncVars, genVars, cliVars, aliasVars>>
    \/ DropPad /\ UNCHANGED <<cacheVars, clockVars, lockVars, truncVars, genVars, cliVars, aliasVars>>
SpecCodec == InitCodec /\ [][NextCodec]_vars

\* truncation of digests
InitTrunc ==
    /\ TruncInit
    /\ CacheAtStart /\ ClockAtStart /\ LockAtStart /\ CodecAtStart
    /\ GenAtStart /\ CliAtStart
    /\ AliasAtStart
NextTrunc ==
    \/ Truncate /\ UNCHANGED <<cacheVars, clockVars, lockVars, codecVars, genVars, cliVars, aliasVars>>
SpecTrunc == InitTrunc /\ [][NextTrunc]_vars

\* GenerateTOTPWithTime on explicit instants
InitGen ==
    /\ GenInit
    /\ ClockAtStart /\ LockAtStart /\ CodecAtStart /\ TruncAtStart /\ CliAtStart
    /\ AliasAtStart
NextGen ==
    \/ GenerateAt /\ UNCHANGED <<clockVars, lockVars, codecVars, truncVars, cliVars, aliasVars>>
    \/ GenForget /\ UNCHANGED <<clockVars, lockVars, codecVars, truncVars, cliVars, aliasVars>>
SpecGen == InitGen /\ [][NextGen]_vars

\* the account list of the command line
InitCli ==
    /\ CliInit
    /\ CacheAtStart /\ ClockAtStart /\ LockAtStart /\ CodecAtStart
    /\ TruncAtStart /\ GenAtStart
    /\ AliasAtStart
NextCli ==
    \/ RunAddURI /\ UNCHANGED <<cacheVars, clockVars, lockVars, codecVars, truncVars, genVars, aliasVars>>
    \/ RunRemove /\ UNCHANGED <<cacheVars, clockVars, lockVars, codecVars, truncVars, genVars, aliasVars>>
    \/ RunAddUser /\ UNCHANGED <<cacheVars, clockVars, lockVars, codecVars, truncVars, genVars, aliasVars>>
    \/ RunList /\ UNCHANGED <<cacheVars, clockVars, lockVars, codecVars, truncVars, genVars, aliasVars>>
SpecCli == InitCli /\ [][NextCli]_vars

\* the storage of the key bytes and a caller that writes into its slices
InitAlias ==
    /\ AliasInit
    /\ ClockAtStart /\ LockAtStart /\ CodecAtStart /\ TruncAtStart
    /\ GenAtStart /\ CliAtStart
NextAlias ==
    \/ AliasDecodeHit /\ UNCHANGED <<clockVars, lockVars, codecVars, truncVars, genVars, cliVars>>
    \/ AliasDecodeMiss /\ UNCHANGED <<clockVars, lockVars, codecVars, truncVars, genVars, cliVars>>
    \/ CallerWrites /\ UNCHANGED <<clockVars, lockVars, codecVars, truncVars, genVars, cliVars>>
    \/ AliasRestart /\ UNCHANGED <<clockVars, lockVars, codecVars, truncVars, genVars, cliVars>>
SpecAlias == InitAlias /\ [][NextAlias]_vars

-----------------------------------------------------------------------------
(* Properties of the core called by one process (Spec)                      *)

Decodable(secret) == DecodeOf(Normalize(secret)).ok

\* the counters ValidateCode is to accept at instant t
WindowCounters(t, p, w) == ((t \div p) - w)..((t \div p) + w)

\* C1: ValidateCode called at instant t with window w and positive period p
\* returns true exactly when the candidate is the code of one of the counters
\* floor(t/p)-w .. floor(t/p)+w, however the clock advances during the call.
C1_ValidateWindow ==
    (/\ result.op = "validate"
     /\ result.status \in {"true", "false"}
     /\ result.acct.Period > 0
     /\ result.window >= 0
     /\ Decodable(result.acct.Secret))
    => ((result.status = "true")
        <=> (result.candCounter
               \in WindowCounters(result.t0, result.acct.Period, result.window)))

\* C2: GenerateCurrentCode returns the code together with the window in which
\* that code is valid: start = floor(now/30)*30, end = start + 30, and the code
\* is the one GenerateCodeAt gives at start, wherever the clock advances
\* during the call.
C2_CurrentWindow ==
    (result.op = "current" /\ result.status = "ok")
    => /\ result.start = (result.tEnd \div DefaultStep) * DefaultStep
       /\ result.end = result.start + DefaultStep
       /\ result.code = CodeFor(KeyOf(result.acct.Secret),
                                result.start \div DefaultStep,
                                result.acct.Algorithm)

\* C4: no core operation aborts the process: every call ends by returning a
\* code, a DecodeError or a boolean, for every stored period.
C4_NoAbort == result.status # "panic" /\ call.op # "aborted"

\* C5: a secret that does not decode gives DecodeError from GenerateCodeAt and
\* GenerateCurrentCode and false from ValidateCode for every candidate and
\* window, and the cache entry is after the call what it was before it: the
\* secret cached before is still a hit.
C5_DecodeFailure ==
    (result.op # "none" /\ ~Decodable(result.acct.Secret))
    => /\ result.op \in {"at", "current"} => result.status = "err"
       /\ result.op = "validate" => result.status = "false"
       /\ result.cache1Text = result.cache0Text
       /\ result.cache1Key = result.cache0Key
       /\ result.cache0Key # NilKey
            => CacheLookup(result.cache0Text, result.cache1Text,
                           result.cache1Key).hit

\* C5 witness: ValidateCode with window 1 has answered false for the secret
\* that does not decode while another secret was cached
C5_Witness ==
    /\ result.op = "validate"
    /\ result.status = "false"
    /\ result.window = 1
    /\ ~Decodable(result.acct.Secret)
    /\ result.cache0Key # NilKey
    /\ result.cache1Key = result.cache0Key

\* C9: the display's code for an account at instant t is computed with the
\* period shown beside it, and --verify accepts it for that account at t.
C9_PeriodHonoured ==
    /\ (shown.valid /\ shown.acct.Period > 0)
         => shown.code = CodeFor(KeyOf(shown.acct.Secret),
                                 shown.t \div shown.acct.Period,
                                 shown.acct.Algorithm)
    /\ (/\ shown.valid
        /\ result.op = "validate"
        /\ result.acct = shown.acct
        /\ result.cand = shown.code
        /\ result.t0 = shown.t
        /\ result.tEnd = shown.t)
         => result.status = "true"

\* C9 for the accounts whose period is DefaultStep: the displayed code is the
\* code of the period shown, and --verify at that instant accepts it
C9_DefaultPeriod ==
    /\ (shown.valid /\ shown.acct.Period = DefaultStep)
         => shown.code = CodeFor(KeyOf(shown.acct.Secret),
                                 shown.t \div shown.acct.Period,
                                 shown.acct.Algorithm)
    /\ (/\ shown.valid
        /\ shown.acct.Period = DefaultStep
        /\ result.op = "validate"
        /\ result.acct = shown.acct
        /\ result.cand = shown.code
        /\ result.t0 = shown.t
        /\ result.tEnd = shown.t)
         => result.status = "true"

\* C1, the calls during which the clock stands still: ValidateCode answers
\* for the window of counters around the instant of the call
C1_WhenClockStill ==
    (/\ result.op = "validate"
     /\ result.status \in {"true", "false"}
     /\ result.acct.Period > 0
     /\ result.window >= 0
     /\ result.tEnd = result.t0
     /\ Decodable(result.acct.Secret))
    => ((result.status = "true")
        <=> (result.candCounter
               \in WindowCounters(result.t0, result.acct.Period, result.window)))

-----------------------------------------------------------------------------
(* Properties of GenerateTOTPWithTime on explicit instants (SpecGen)        *)

\* two calls that returned a code for the same secret, period and algorithm
SameSetting(a, b) ==
    /\ a.status = "ok" /\ b.status = "ok"
    /\ a.secret = b.secret /\ a.period = b.period /\ a.algo = b.algo
    /\ a.period > 0

\* the interval [k*p, (k+1)*p) an instant lies in
IntervalOf(g) == g.t \div g.period

\* what C3 says of one call and of a pair of calls
CounterIsFloor(g) ==
    (g.status = "ok" /\ g.period > 0)
    => /\ g.counter = g.t \div g.period
       /\ g.code = CodeFor(KeyOf(g.secret), g.t \div g.period, g.algo)
StableInInterval(a, b) ==
    (SameSetting(a, b) /\ IntervalOf(a) = IntervalOf(b))
    => (a.counter = b.counter /\ a.code = b.code)
AdjacentDiffer(a, b) ==
    (SameSetting(a, b) /\ IntervalOf(a) = IntervalOf(b) + 1)
    => a.counter # b.counter

PostEpoch(g) == g.t >= 0

\* C3 as stated: for every positive period and every instant the call
\* accepts, the counter hashed is floor(t/p); two instants of one interval
\* [k*p, (k+1)*p) give the same counter and code, and instants of adjacent
\* intervals give different counters.
C3_EveryInstant ==
    /\ CounterIsFloor(gen[1])
    /\ StableInInterval(gen[1], gen[2])
    /\ AdjacentDiffer(gen[1], gen[2])
    /\ AdjacentDiffer(gen[2], gen[1])

\* C3 for instants at or after the epoch: the counter hashed is floor(t/p);
\* two such instants of one interval give the same counter and code, and
\* such instants of adjacent intervals give different counters.
C3_PostEpochInstants ==
    /\ PostEpoch(gen[1]) => CounterIsFloor(gen[1])
    /\ (PostEpoch(gen[1]) /\ PostEpoch(gen[2]))
         => /\ StableInInterval(gen[1], gen[2])
            /\ AdjacentDiffer(gen[1], gen[2])
            /\ AdjacentDiffer(gen[2], gen[1])

\* C3 witness: two different instants after the epoch in one interval of a
\* period of several seconds, not the first interval, gave the same code
C3_Witness ==
    /\ SameSetting(gen[1], gen[2])
    /\ gen[1].period >= 2
    /\ gen[1].t > gen[2].t
    /\ gen[2].t >= gen[2].period
    /\ IntervalOf(gen[1]) = IntervalOf(gen[2])
    /\ gen[1].code = gen[2].code

-----------------------------------------------------------------------------
(* Properties of the normalization and decoding of secret texts (SpecCodec) *)

IsLower(c) == IndexIn(c, Lower) > 0

\* a normalized text: whole blocks, no space, no lower-case letter
NormalShape(n) ==
    /\ Len(n) % BlockLen = 0
    /\ \A i \in 1..Len(n) : n[i] # " " /\ ~IsLower(n[i])

\* n is bare, right-padded with '=' only when bare does not fill whole blocks
PaddedWhenNeeded(bare, n) ==
    IF Len(bare) % BlockLen = 0 THEN n = bare
    ELSE /\ Len(n) = Len(bare) + BlockLen - (Len(bare) % BlockLen)
         /\ SubSeq(n, 1, Len(bare)) = bare
         /\ \A i \in (Len(bare) + 1)..Len(n) : n[i] = "="

\* the instants and hashes the codes are compared at
ComparedInstants == {59}
ComparedAlgos == {"SHA1", "SHA512"}

\* the second call runs on the cache the first one left
SameCodes(first, second) ==
    /\ second.status = first.status
    /\ second.code = first.code
SameCodesAt(a, b, t, algo) ==
    SameCodes(GenerateTOTPWithTime(a, DefaultStep, t, algo, <<>>, NilKey),
              GenerateTOTPWithTime(b, DefaultStep, t, algo,
                                   Normalize(a), DecodeRaw(Normalize(a)).key))

SameKey(d1, d2) == d1.ok = d2.ok /\ d1.key = d2.key

\* C6: a text and a variant of it that differs only by letter case, by space
\* characters or by missing trailing '=' padding normalize to the same text
\* (upper case, no spaces, right-padded with '=' to a multiple of 8 only when
\* the length is not one already), decode to the same key bytes and give the
\* same codes; normalizing a normalized text changes nothing.
C6_SameSecret ==
    /\ Normalize(variant) = Normalize(text)
    /\ NormalShape(Normalize(variant))
    /\ PaddedWhenNeeded(ToUpper(RemoveSpaces(variant)), Normalize(variant))
    /\ Normalize(Normalize(variant)) = Normalize(variant)
    /\ SameKey(DecodeRaw(Normalize(variant)), DecodeRaw(Normalize(text)))
    /\ DecodeRaw(Normalize(text)).ok
         => \A t \in ComparedInstants, algo \in ComparedAlgos :
               /\ SameCodesAt(text, variant, t, algo)
               /\ SameCodesAt(variant, text, t, algo)

\* C6 witness: the padded text of a key and a variant of it in the other
\* case, with a space and without its padding
C6_Witness ==
    /\ text = <<"M", "f", "=", "=", "=", "=", "=", "=">>
    /\ DecodeRaw(Normalize(text)).ok
    /\ padsDropped = 6
    /\ CountSpaces(variant) = 1
    /\ RemoveSpaces(variant) = <<"m", "F">>

-----------------------------------------------------------------------------
(* Properties of the decode cache under concurrent callers (SpecCache)      *)

\* what a decode without the cache gives
Uncached(norm) == DecodeRaw(norm)

\* every successful call returned the bytes of its own secret
ReturnsOwnBytes ==
    \A p \in Procs :
        (dret[p].done /\ dret[p].ok)
        => (Uncached(dret[p].norm).ok /\ dret[p].key = Uncached(dret[p].norm).key)

\* the cache is empty, or one pair of a text and the bytes of that text
CacheWhole(cText, cKey) ==
    \/ cText = <<>> /\ cKey = NilKey
    \/ cKey # NilKey /\ Uncached(cText).ok /\ cKey = Uncached(cText).key

\* C7 as stated: every successful Decode returns the bytes an uncached decode
\* of its own normalized secret gives, and at every moment the cache is empty
\* or one complete (text, bytes) pair whose bytes are the decode of its text.
C7_EveryMoment ==
    /\ ReturnsOwnBytes
    /\ CacheWhole(cachedText, cachedKey)

\* C7 at the moments the cache can be read: every successful Decode returns
\* the bytes an uncached decode of its own normalized secret gives, and
\* whenever no caller holds the write lock the cache is empty or one complete
\* (text, bytes) pair whose bytes are the decode of its text; a caller that
\* holds the read lock is never inside the write of another.
C7_CacheNeverAlters ==
    /\ ReturnsOwnBytes
    /\ rwWriter = {} => CacheWhole(cachedText, cachedKey)
    /\ rwReaders # {} => rwWriter = {}
    /\ Cardinality(rwWriter) <= 1

\* C7 witness: one caller got its bytes from the cache while the other had
\* decoded another secret and is about to replace the entry
C7_Witness ==
    \E p \in Procs, q \in Procs :
        /\ dret[p].done /\ dret[p].ok /\ dret[p].hit
        /\ dpc[q] = "storekey"
        /\ dsecret[q] # dret[p].norm
        /\ cachedKey = dret[p].key

-----------------------------------------------------------------------------
(* Properties of the truncation and the format (SpecTrunc)                  *)

IsDigit(c) == IndexIn(c, DigitChars) > 0

RECURSIVE ValueOf(_)
ValueOf(digs) ==
    IF digs = <<>> THEN 0
    ELSE 10 * ValueOf(SubSeq(digs, 1, Len(digs) - 1))
         + (IndexIn(digs[Len(digs)], DigitChars) - 1)

\* the four bytes at Go indexes off..off+3, the top bit of the first masked
FourBytes(digest, off) ==
    (digest[off + 1] % 128) * 16777216 + digest[off + 2] * 65536
    + digest[off + 3] * 256 + digest[off + 4]

-----------------------------------------------------------------------------
(* Properties of the saved account list (SpecCli)                           *)

NoDuplicateLabels(list) ==
    \A i \in 1..Len(list), j \in 1..Len(list) :
        list[i].Label = list[j].Label => i = j

\* u is the first account of each label of list, in the order of list
FirstOfEachLabel(list, u) ==
    /\ NoDuplicateLabels(u)
    /\ \A i \in 1..Len(list) : HasLabel(u, list[i].Label)
    /\ \A k \in 1..Len(u) :
          /\ HasLabel(list, u[k].Label)
          /\ u[k] = list[FirstIndex(list, u[k].Label)]
    /\ \A k \in 1..Len(u), m \in 1..Len(u) :
          k < m => FirstIndex(list, u[k].Label) < FirstIndex(list, u[m].Label)

AddedTo(loaded, cfg, out) ==
    IF HasLabel(loaded, cfg.Label)
    THEN /\ Len(out) = Len(loaded)
         /\ \A i \in 1..Len(loaded) :
               out[i] = IF loaded[i].Label = cfg.Label THEN cfg ELSE loaded[i]
    ELSE out = loaded \o <<cfg>>

RemovedFrom(loaded, label, out) ==
    /\ ~HasLabel(out, label)
    /\ Len(out) = Len(loaded) - 1
    /\ \A i \in 1..Len(out) :
          out[i] = IF i < FirstIndex(loaded, label) THEN loaded[i]
                   ELSE loaded[i + 1]

\* C10: the saved list never holds two accounts of one label; adding a label
\* that exists replaces that account in place and adding a new one appends;
\* deduplication keeps the first account of each label in the original
\* order; removing a label leaves every other account as it was.
C10_NoDuplicateLabels ==
    /\ saved # NotSaved => NoDuplicateLabels(saved)
    /\ file # Missing => FirstOfEachLabel(file, uniqueAccounts(file))
    /\ lastOp.kind # "none" => NoDuplicateLabels(lastOp.loaded)
    /\ (lastOp.kind = "add" /\ ~lastOp.fatal)
         => AddedTo(lastOp.loaded, lastOp.cfg, saved)
    /\ (lastOp.kind = "remove" /\ ~lastOp.fatal)
         => RemovedFrom(lastOp.loaded, lastOp.label, saved)

\* C10 witness: the first of two stored accounts was added again with another
\* period and the saved list has the new account in the first place
C10_Witness ==
    /\ lastOp.kind = "add" /\ ~lastOp.fatal
    /\ Len(lastOp.loaded) = 2
    /\ lastOp.loaded[1].Label = lastOp.cfg.Label
    /\ lastOp.loaded[1] # lastOp.cfg
    /\ saved = <<lastOp.cfg, lastOp.loaded[2]>>

-----------------------------------------------------------------------------
(* Properties of the storage of the returned key bytes (SpecAlias)          *)

\* no slice a caller was given points to the array of the cached entry
NoSharedStorage == \A a \in held : a # keyRef

\* the last successful decode returned the bytes of its own secret
ReturnedOwnBytes ==
    (aret.done /\ aret.ok) => aret.key = DecodeRaw(aret.norm).key

\* C11: the bytes returned by every successful Decode, on a hit and on a miss
\* alike, share no storage with the cached entry, so whatever the caller
\* writes into them, a later Decode of the secret returns the bytes of that
\* secret.
C11_CallersCannotCorrupt ==
    /\ NoSharedStorage
    /\ ReturnedOwnBytes

\* C11 on a hit only: the slice returned is a fresh array, and what the
\* caller writes into the slices of its hits leaves the cached bytes alone
C11_HitIsCopy ==
    (aret.done /\ aret.hit)
    => /\ aret.ref # keyRef
       /\ \A a \in held : a # keyRef => a \in 1..Len(heap)

=============================================================================
